---- MODULE Spec2Model ----
(***************************************************************************)
(* compileToFunction of jquery-templates-impl.js: the walk over a parse    *)
(* tree that appends JavaScript lexemes to javaScriptSource, and the       *)
(* evaluation of the function built from the joined source.                *)
(*                                                                         *)
(* A parse node is a record [kind, content, children].  A JavaScript       *)
(* string node (an HTML snippet) has kind "string" and its text as the     *)
(* single lexeme of content; every other node is the array                 *)
(* [kind, content, child, child, ...] of the source.  content is the       *)
(* directive text as a sequence of lexemes, and javaScriptSource is the    *)
(* sequence of lexemes of javaScriptSource.join("").                       *)
(***************************************************************************)
EXTENDS Integers, Sequences, FiniteSets, TLC

VARIABLES parseTree, data, options, javaScriptSource, hasValue, nestLevel,
          inScope, stack, pc, error, output, calls, dethunks, numericPlus

vars == <<parseTree, data, options, javaScriptSource, hasValue, nestLevel,
          inScope, stack, pc, error, output, calls, dethunks, numericPlus>>

\* What a call of the compiled function leaves: its result, the
\* sub-template calls and the calls of substituted functions it made, and
\* whether a + found a left operand that is not a string.
run == <<output, calls, dethunks, numericPlus>>

(***************************************************************************)
(* Sequences of lexemes.                                                   *)
(***************************************************************************)
RECURSIVE Flatten(_)
Flatten(ss) == IF ss = <<>> THEN <<>> ELSE Head(ss) \o Flatten(Tail(ss))

RECURSIVE Join(_, _)
Join(ss, sep) ==
    IF ss = <<>> THEN <<>>
    ELSE IF Len(ss) = 1 THEN Head(ss)
    ELSE Head(ss) \o sep \o Join(Tail(ss), sep)

Reverse(s) == [i \in 1..Len(s) |-> s[Len(s) + 1 - i]]

Repeat(x, n) == [i \in 1..n |-> x]

(***************************************************************************)
(* Constants of the compiler.                                              *)
(***************************************************************************)
EXT_ALL_METHOD_NAME == "extAll"

\* "$." + EXT_ALL_METHOD_NAME
ExtAllName == "$." \o EXT_ALL_METHOD_NAME

TEMP_NAME_PREFIX == "$$tmplVar"

DEBUG == TRUE

TRUTHY == TRUE

FALSEY == FALSE

DEFAULT_EACH_KEY_VARIABLE_NAME == "$index"

DEFAULT_EACH_VALUE_VARIABLE_NAME == "$value"

tmpNameAt(level) == TEMP_NAME_PREFIX \o ToString(level)

\* escapeJsValue( text ): the quoted JavaScript literal of an HTML snippet.
escapeJsValue(text) == "'" \o text \o "'"

\* /\S/.test( cond )
NonBlank(cond) == \E i \in 1..Len(cond) : cond[i] # " "

(***************************************************************************)
(* Parse trees, with the indices of the source: parseTree[ 0 ] is the      *)
(* kind, parseTree[ 1 ] the content, parseTree[ 2 ] the first child.       *)
(***************************************************************************)
Node(kind, content, children) ==
    [kind |-> kind, content |-> content, children |-> children]

TreeLen(tree) == 2 + Len(tree.children)

TreeAt(tree, i) == tree.children[i - 1]

\* parseTree.slice( from, to )
TreeSlice(tree, from, to) ==
    IF from >= to THEN <<>> ELSE SubSeq(tree.children, from - 1, to - 2)

\* The scan for the next else of an if node, from pos.
RECURSIVE ElseIndex(_, _)
ElseIndex(tree, i) ==
    IF i >= TreeLen(tree) THEN TreeLen(tree)
    ELSE IF TreeAt(tree, i).kind = "else" THEN i
    ELSE ElseIndex(tree, i + 1)

\* The two diagnostics of the branch loop.
MissingCondition(continues, pos) == DEBUG /\ ~continues /\ pos = 2

\* MisplacedElse, were the position of a conditionless else not looked at.
NeverMisplaced(continues, pos, elseIndex, len) == FALSE

MisplacedElse(continues, pos, elseIndex, len) ==
    DEBUG /\ ~continues /\ pos # 2 /\ elseIndex # len

\* BodyLevel, were nestLevel not incremented.
SameLevel(level) == level

\* ++nestLevel
BodyLevel(level) == level + 1

\* The condition of the branch that starts at pos.
CondAt(tree, pos) ==
    IF pos < TreeLen(tree)
    THEN (IF pos = 2 THEN tree.content ELSE TreeAt(tree, pos - 1).content)
    ELSE <<>>

(***************************************************************************)
(* The pieces of code the walk pushes.                                     *)
(***************************************************************************)
\* The source the function body starts with.
InitialSource ==
    <<"var", tmpNameAt(0), ";",
      "$item", "=", "$item", "||", "{", "}", ";",
      "with", "(", "$data", "=", ExtAllName, "(",
      "Object.create?Object.create(null):{}", ",", "$data", "||", "{", "}",
      ")", ")", "{",
      "return", "(">>

\* A lexeme that [\w.$\[\]]+ matches.
IsAccessor(lexeme) ==
    lexeme \notin {"=>", " ", "(", ")", ",", "+", "?", ":", "=", "{", "}", ";"}

\* Where /(=>[\w.$\[\]]+)+$/ matches in content: the leftmost index from
\* which content is a run of "=>" accessor pairs up to its end, or
\* Len(content) + 1 when there is no match.
RECURSIVE PostDethunkStart(_, _)
PostDethunkStart(content, from) ==
    IF from > Len(content) THEN Len(content) + 1
    ELSE LET n == Len(content) - from + 1
             pairs == /\ n % 2 = 0
                      /\ \A j \in 0..(n \div 2 - 1) :
                            /\ content[from + 2 * j] = "=>"
                            /\ IsAccessor(content[from + 2 * j + 1])
         IN IF pairs THEN from ELSE PostDethunkStart(content, from + 1)

\* postDethunk.split( "=>" )
RECURSIVE Split(_, _)
Split(s, sep) ==
    IF \A i \in 1..Len(s) : s[i] # sep THEN <<s>>
    ELSE LET i == CHOOSE k \in 1..Len(s) :
                      s[k] = sep /\ \A j \in 1..(k - 1) : s[j] # sep
         IN <<SubSeq(s, 1, i - 1)>> \o Split(SubSeq(s, i + 1, Len(s)), sep)

\* Wrapper, were the accessors not reversed.
WrapperInSourceOrder(content) ==
    LET at == PostDethunkStart(content, 1)
        matched == at <= Len(content)
        postDethunk == Split(SubSeq(content, at, Len(content)), "=>")
    IN [content |-> SubSeq(content, 1, at - 1),
        wrapperEnd |-> IF matched THEN Repeat(")", Len(postDethunk) - 1)
                       ELSE <<>>,
        wrapperStart |-> IF matched
                         THEN Join(Append(Tail(postDethunk), <<>>), <<"(">>)
                         ELSE <<>>]

\* The replace callback: wrapperStart and wrapperEnd of a substitution.
Wrapper(content) ==
    LET at == PostDethunkStart(content, 1)
        matched == at <= Len(content)
        postDethunk == Split(SubSeq(content, at, Len(content)), "=>")
    IN [content |-> SubSeq(content, 1, at - 1),
        wrapperEnd |-> IF matched THEN Repeat(")", Len(postDethunk) - 1)
                       ELSE <<>>,
        wrapperStart |-> IF matched THEN Join(Reverse(postDethunk), <<"(">>)
                         ELSE <<>>]

DethunkCall == <<".call", "(", "null", ",", "arguments", ")">>

\* kind "=": the code of a substitution.
SubstCode(content, tmpName) ==
    LET w == Wrapper(content)
    IN <<"(", tmpName, "=", "(">> \o w.content \o <<")", ",">>
       \o w.wrapperStart
       \o <<"'function'", "!==", "typeof", tmpName, "?", tmpName, ":",
            tmpName>> \o DethunkCall \o <<")">>
       \o w.wrapperEnd

\* content.match( EACH_DIRECTIVE_CONTENT ): "(key, value) container" or a
\* bare container; match[ 1 ] and match[ 2 ] are "" when the header has no
\* variable names.
EachMatch(content) ==
    IF /\ Len(content) >= 6
       /\ content[1] = "(" /\ content[3] = "," /\ content[5] = ")"
       /\ IsAccessor(content[2]) /\ IsAccessor(content[4])
    THEN [ok |-> TRUE, key |-> content[2], value |-> content[4],
          container |-> SubSeq(content, 6, Len(content))]
    ELSE IF NonBlank(content) /\ content[1] # "("
    THEN [ok |-> TRUE, key |-> "", value |-> "", container |-> content]
    ELSE [ok |-> FALSE, key |-> "", value |-> "", container |-> <<>>]

\* keyVarOf, were the declared key name ignored.
keyVarDefault(content) == DEFAULT_EACH_KEY_VARIABLE_NAME

keyVarOf(content) ==
    IF EachMatch(content).key # "" THEN EachMatch(content).key
    ELSE DEFAULT_EACH_KEY_VARIABLE_NAME

valueVarOf(content) ==
    IF EachMatch(content).value # "" THEN EachMatch(content).value
    ELSE DEFAULT_EACH_VALUE_VARIABLE_NAME

\* kind "each": the code up to the body.
EachOpenCode(content, tmpName, level) ==
    <<"(", tmpName, "=", "[", "]", ",", "$.each", "(", "(">>
    \o EachMatch(content).container
    \o <<")", ",", "function", "(", keyVarOf(content), ",",
         valueVarOf(content), ")", "{", "var", tmpNameAt(level), ";",
         tmpName, ".push", "(">>

\* kind "each": the code after the body.
EachCloseCode(tmpName, bodyHasValue) ==
    (IF bodyHasValue THEN <<>> ELSE <<"''">>)
    \o <<")", "}", ")", ",", tmpName, ".join", "(", "''", ")", ")">>

\* inScope.push( keyVar + ":" + keyVar, valueVar + ":" + valueVar )
ScopeEntries(content) ==
    <<<<keyVarOf(content), ":", keyVarOf(content)>>,
      <<valueVarOf(content), ":", valueVarOf(content)>>>>

\* content.match( TMPL_DIRECTIVE_CONTENT ): "(data, options) selector" or a
\* bare selector.
RECURSIVE CloseParen(_, _)
CloseParen(content, i) ==
    IF i > Len(content) THEN 0
    ELSE IF content[i] = ")" THEN i
    ELSE CloseParen(content, i + 1)

TmplMatch(content) ==
    LET close == CloseParen(content, 2)
    IN IF Len(content) >= 1 /\ content[1] = "("
       THEN IF close > 0 /\ close < Len(content)
            THEN [ok |-> TRUE,
                  dataAndOptions |-> SubSeq(content, 2, close - 1),
                  selector |-> SubSeq(content, close + 1, Len(content))]
            ELSE [ok |-> FALSE, dataAndOptions |-> <<>>, selector |-> <<>>]
       ELSE IF NonBlank(content)
       THEN [ok |-> TRUE, dataAndOptions |-> <<>>, selector |-> content]
       ELSE [ok |-> FALSE, dataAndOptions |-> <<>>, selector |-> <<>>]

\* kind "tmpl": the array the data and options of the call are read from.
TmplArgsCode(dataAndOptions, scope) ==
    IF dataAndOptions # <<>>
    THEN <<"$.extend", "(", "[", "]", ",", "arguments", ",", "[">>
         \o dataAndOptions \o <<"]", ")">>
    ELSE IF Len(scope) # 0
    THEN <<"[", ExtAllName, "(", "{", "}", ",", "$data", ",", "{">>
         \o Join(scope, <<",">>) \o <<"}", ")", ",", "$item", "]">>
    ELSE <<"arguments">>

\* kind "tmpl": the code of a sub-template call.
TmplCode(content, tmpName, scope) ==
    <<"(", tmpName, "=">>
    \o TmplArgsCode(TmplMatch(content).dataAndOptions, scope)
    \o <<",", "$.template", "(", "(">> \o TmplMatch(content).selector
    \o <<")", ")", ".tmpl", "(", tmpName, "[", "0", "]", ",",
         tmpName, "[", "1", "]", ")", ")">>

\* kind "if": the code that opens the branch at pos.
IfBranchCode(valueBefore, pos, cond, continues) ==
    (IF valueBefore THEN <<>> ELSE <<"''">>)
    \o (IF pos = 2 THEN <<"(", "(">> ELSE <<")", ":", "(">>)
    \o cond
    \o (IF continues THEN <<")", "?", "(">> ELSE <<>>)

\* kind "if": the code after the last branch.
IfCloseCode(valueBefore) ==
    (IF valueBefore THEN <<>> ELSE <<"''">>) \o <<")", ")">>

\* The end of the function body.
FinalCode(valueBefore) ==
    (IF valueBefore THEN <<>> ELSE <<"''">>) \o <<")", "}">>

(***************************************************************************)
(* The walk.  stack holds the calls in progress: a "walk" frame is a       *)
(* $.each( nodes, walk ) that has reached nodes[ i ], an "if" frame the    *)
(* branch loop of an if node, an "each" frame a walk of an each node       *)
(* whose body is being compiled.                                           *)
(***************************************************************************)
Frame(k, node, nodes, i, pos, continues, tmpName) ==
    [k |-> k, node |-> node, nodes |-> nodes, i |-> i, pos |-> pos,
     continues |-> continues, tmpName |-> tmpName]

NoNode == Node("", <<>>, <<>>)

WalkFrame(nodes) == Frame("walk", NoNode, nodes, 1, 0, FALSE, "")

Top == stack[Len(stack)]

Pop == SubSeq(stack, 1, Len(stack) - 1)

Walking ==
    /\ pc = "walk"
    /\ stack # <<>>
    /\ Top.k = "walk"
    /\ Top.i <= Len(Top.nodes)

Cur == Top.nodes[Top.i]

Advance == [stack EXCEPT ![Len(stack)].i = @ + 1]

\* If there was a value before this one, append them.
Plus == IF hasValue THEN <<"+">> ELSE <<>>

\* Seed, were the first substitution of a group not seeded.
SeedNever == <<>>

\* Make sure that + is string-wise.
Seed == IF ~hasValue THEN <<"''", "+">> ELSE <<>>

Throw(message) ==
    /\ pc' = "error"
    /\ error' = message
    /\ stack' = <<>>
    /\ UNCHANGED <<parseTree, data, options, hasValue, nestLevel, inScope,
                   run>>

WalkString ==
    /\ Walking
    /\ Cur.kind = "string"
    /\ javaScriptSource' =
          javaScriptSource \o Plus \o <<escapeJsValue(Cur.content[1])>>
    /\ hasValue' = TRUTHY
    /\ stack' = Advance
    /\ UNCHANGED <<parseTree, data, options, nestLevel, inScope, pc, error,
                   run>>

WalkSubst ==
    /\ Walking
    /\ Cur.kind = "="
    /\ javaScriptSource' =
          javaScriptSource \o Plus \o Seed
          \o SubstCode(Cur.content, tmpNameAt(nestLevel))
    /\ hasValue' = TRUTHY
    /\ stack' = Advance
    /\ UNCHANGED <<parseTree, data, options, nestLevel, inScope, pc, error,
                   run>>

WalkIf ==
    /\ Walking
    /\ Cur.kind = "if"
    /\ javaScriptSource' = javaScriptSource \o Plus
    /\ hasValue' = TRUTHY
    /\ stack' = Advance \o <<Frame("if", Cur, <<>>, 0, 2, TRUE, "")>>
    /\ UNCHANGED <<parseTree, data, options, nestLevel, inScope, pc, error,
                   run>>

\* One round of the branch loop of an if node.
IfBranch ==
    /\ pc = "walk"
    /\ stack # <<>>
    /\ Top.k = "if"
    /\ Top.continues
    /\ LET tree == Top.node
           pos == Top.pos
           len == TreeLen(tree)
           elseIndex == ElseIndex(tree, pos)
           cond == CondAt(tree, pos)
           continues == NonBlank(cond)
       IN IF MissingCondition(continues, pos)
          THEN /\ Throw("{{if}} missing condition")
               /\ UNCHANGED javaScriptSource
          ELSE IF MisplacedElse(continues, pos, elseIndex, len)
          THEN /\ Throw("{{else}} without condition must be last")
               /\ UNCHANGED javaScriptSource
          ELSE /\ javaScriptSource' =
                     javaScriptSource
                     \o IfBranchCode(hasValue, pos, cond, continues)
               /\ hasValue' = FALSEY
               /\ stack' =
                     [stack EXCEPT ![Len(stack)].pos = elseIndex + 1,
                                   ![Len(stack)].continues = continues]
                     \o <<WalkFrame(TreeSlice(tree, pos, elseIndex))>>
               /\ UNCHANGED <<parseTree, data, options, nestLevel, inScope,
                              pc, error, run>>

IfExit ==
    /\ pc = "walk"
    /\ stack # <<>>
    /\ Top.k = "if"
    /\ ~Top.continues
    /\ javaScriptSource' = javaScriptSource \o IfCloseCode(hasValue)
    /\ hasValue' = TRUTHY
    /\ stack' = Pop
    /\ UNCHANGED <<parseTree, data, options, nestLevel, inScope, pc, error,
                   run>>

WalkEach ==
    /\ Walking
    /\ Cur.kind = "each"
    /\ IF DEBUG /\ ~EachMatch(Cur.content).ok
       THEN /\ Throw("Malformed {{each}} content")
            /\ javaScriptSource' = javaScriptSource \o Plus
       ELSE /\ javaScriptSource' =
                  javaScriptSource \o Plus
                  \o EachOpenCode(Cur.content, tmpNameAt(nestLevel),
                                  BodyLevel(nestLevel))
            /\ nestLevel' = BodyLevel(nestLevel)
            /\ hasValue' = FALSEY
            /\ inScope' = inScope \o ScopeEntries(Cur.content)
            /\ stack' = Advance
                        \o <<Frame("each", Cur, <<>>, 0, 0, FALSE,
                                   tmpNameAt(nestLevel)),
                             WalkFrame(Cur.children)>>
            /\ UNCHANGED <<parseTree, data, options, pc, error, run>>

EachExit ==
    /\ pc = "walk"
    /\ stack # <<>>
    /\ Top.k = "each"
    /\ inScope' = SubSeq(inScope, 1, Len(inScope) - 2)
    /\ javaScriptSource' =
          javaScriptSource \o EachCloseCode(Top.tmpName, hasValue)
    /\ nestLevel' = nestLevel - 1
    /\ hasValue' = TRUTHY
    /\ stack' = Pop
    /\ UNCHANGED <<parseTree, data, options, pc, error, run>>

WalkTmpl ==
    /\ Walking
    /\ Cur.kind = "tmpl"
    /\ IF DEBUG /\ ~TmplMatch(Cur.content).ok
       THEN /\ Throw("Malformed {{tmpl}} content")
            /\ javaScriptSource' = javaScriptSource \o Plus
       ELSE /\ javaScriptSource' =
                  javaScriptSource \o Plus
                  \o TmplCode(Cur.content, tmpNameAt(nestLevel), inScope)
            /\ hasValue' = TRUTHY
            /\ stack' = Advance
            /\ UNCHANGED <<parseTree, data, options, nestLevel, inScope, pc,
                           error, run>>

\* {html} and {wrap} are handled by translation; any other kind is unknown.
WalkUnknown ==
    /\ Walking
    /\ Cur.kind \notin {"string", "=", "if", "each", "tmpl"}
    /\ IF DEBUG
       THEN /\ Throw("I do not know how to compile")
            /\ javaScriptSource' = javaScriptSource \o Plus
       ELSE /\ javaScriptSource' = javaScriptSource \o Plus
            /\ hasValue' = TRUTHY
            /\ stack' = Advance
            /\ UNCHANGED <<parseTree, data, options, nestLevel, inScope, pc,
                           error, run>>

\* A $.each( nodes, walk ) has walked its last node.
WalkReturn ==
    /\ pc = "walk"
    /\ stack # <<>>
    /\ Top.k = "walk"
    /\ Top.i > Len(Top.nodes)
    /\ stack' = Pop
    /\ UNCHANGED <<parseTree, data, options, javaScriptSource, hasValue,
                   nestLevel, inScope, pc, error, run>>

(***************************************************************************)
(* JavaScript values.  A string is the sequence of its characters, an      *)
(* object the list of its properties in insertion order.                   *)
(***************************************************************************)
Undefined == [t |-> "undefined"]

Null == [t |-> "null"]

NaN == [t |-> "NaN"]

Hole == [t |-> "hole"]

Num(n) == [t |-> "number", n |-> n]

Str(s) == [t |-> "string", s |-> s]

Bool(b) == [t |-> "boolean", b |-> b]

Arr(a) == [t |-> "array", a |-> a]

Arguments(a) == [t |-> "arguments", a |-> a]

Obj(props) == [t |-> "object", props |-> props]

Fn(f) == [t |-> "function", f |-> f, params |-> <<>>, body |-> 0]

Closure(params, body) ==
    [t |-> "function", f |-> "closure", params |-> params, body |-> body]

Template(selector) == [t |-> "template", selector |-> selector]

Prop(k, v) == [k |-> k, v |-> v]

HasProp(props, k) == \E i \in 1..Len(props) : props[i].k = k

GetProp(props, k) ==
    IF HasProp(props, k)
    THEN props[CHOOSE i \in 1..Len(props) : props[i].k = k].v
    ELSE Undefined

\* target[ k ] = v
SetProp(props, k, v) ==
    IF HasProp(props, k)
    THEN [i \in 1..Len(props) |->
             IF props[i].k = k THEN Prop(k, v) ELSE props[i]]
    ELSE Append(props, Prop(k, v))

Digit(n) == <<"0", "1", "2", "3", "4", "5", "6", "7", "8", "9">>[n + 1]

RECURSIVE NumStr(_)
NumStr(n) ==
    IF n < 10 THEN <<Digit(n)>> ELSE NumStr(n \div 10) \o <<Digit(n % 10)>>

\* The string form of a value.
RECURSIVE ToStr(_)
ToStr(v) ==
    CASE v.t = "string" -> v.s
      [] v.t = "number" -> NumStr(v.n)
      [] v.t = "boolean" -> IF v.b THEN <<"true">> ELSE <<"false">>
      [] v.t = "array" ->
            Join([i \in 1..Len(v.a) |->
                     IF v.a[i].t \in {"undefined", "null", "hole"}
                     THEN <<>> ELSE ToStr(v.a[i])], <<",">>)
      [] v.t = "object" -> <<"[object Object]">>
      [] v.t = "arguments" -> <<"[object Arguments]">>
      [] v.t = "function" -> <<"function(){}">>
      [] OTHER -> <<v.t>>

TypeOf(v) ==
    CASE v.t \in {"string", "number", "boolean", "undefined", "function"} ->
            v.t
      [] v.t = "NaN" -> "number"
      [] OTHER -> "object"

Truthy(v) ==
    CASE v.t \in {"undefined", "null", "NaN", "hole"} -> FALSE
      [] v.t = "number" -> v.n # 0
      [] v.t = "string" -> v.s # <<>>
      [] v.t = "boolean" -> v.b
      [] OTHER -> TRUE

\* a + b
JsAdd(a, b) ==
    IF a.t \in {"number", "boolean", "null", "undefined", "NaN"}
       /\ b.t \in {"number", "boolean", "null", "undefined", "NaN"}
    THEN IF a.t = "number" /\ b.t = "number" THEN Num(a.n + b.n) ELSE NaN
    ELSE Str(ToStr(a) \o ToStr(b))

\* $.extAll( target, var_args ): copies every property of every source,
\* those whose value is undefined too.
\* for ( k in source ) target[ k ] = source[ k ]
CopyProps(target, source) ==
    [i \in 1..Len(target) |->
        IF HasProp(source, target[i].k)
        THEN Prop(target[i].k, GetProp(source, target[i].k)) ELSE target[i]]
    \o SelectSeq(source, LAMBDA e : ~HasProp(target, e.k))

\* The properties for ( k in source ) visits; the sources are objects.
Enumerable(source) == IF source.t = "object" THEN source.props ELSE <<>>

RECURSIVE extAll(_, _, _)
extAll(target, args, i) ==
    IF i > Len(args) THEN target
    ELSE extAll(CopyProps(target, Enumerable(args[i])), args, i + 1)

\* $.extend( [], var_args ) on array-likes: a property whose value is
\* undefined is not copied.
ArraySet(a, i, v) ==
    [j \in 1..(IF i > Len(a) THEN i ELSE Len(a)) |->
        IF j = i THEN v ELSE IF j <= Len(a) THEN a[j] ELSE Hole]

RECURSIVE ExtendFrom(_, _, _)
ExtendFrom(target, source, i) ==
    IF i > Len(source) THEN target
    ELSE ExtendFrom(IF source[i].t \in {"undefined", "hole"} THEN target
                    ELSE ArraySet(target, i, source[i]),
                    source, i + 1)

RECURSIVE extend(_, _, _)
extend(target, args, i) ==
    IF i > Len(args) THEN target
    ELSE extend(IF args[i].t \in {"array", "arguments"}
                THEN ExtendFrom(target, args[i].a, 1) ELSE target,
                args, i + 1)

\* The ( key, value ) pairs $.each visits, in its order.
Entries(container) ==
    CASE container.t \in {"array", "arguments"} ->
            [i \in 1..Len(container.a) |->
                Prop(Num(i - 1),
                     IF container.a[i].t = "hole" THEN Undefined
                     ELSE container.a[i])]
      [] container.t = "object" ->
            [i \in 1..Len(container.props) |->
                Prop(Str(<<container.props[i].k>>), container.props[i].v)]
      [] OTHER -> <<>>

(***************************************************************************)
(* The function Function( "$data", "$item", javaScriptSource.join( "" ) )  *)
(* builds: an evaluator of the JavaScript the walk emits, lexeme by        *)
(* lexeme.  The return expression is a sum of fragments, added from the    *)
(* left; a fragment is a string literal or one of the four parenthesised   *)
(* forms the walk pushes, told apart by their first lexemes.  The          *)
(* expressions of a template (a substitution, a condition, a container, a  *)
(* selector, an element of the data and options) are single lexemes: a     *)
(* name, a literal or arguments.                                           *)
(*                                                                         *)
(* A state st holds the scope chain env (innermost scope last; a scope is  *)
(* a function's, with its arguments object, or the with block's), the      *)
(* sub-template calls made, and three flags: syntax (a lexeme is not where *)
(* the grammar wants it), thrown (evaluation threw) and numeric (a + found *)
(* a left operand that is not a string).  With live FALSE the code is      *)
(* parsed and not run.                                                     *)
(***************************************************************************)
Texts == {"a", "b", "c", "d"}

Whitespace == {" "}

Punctuation ==
    {"(", ")", "[", "]", "{", "}", ",", ";", "+", "=", "?", ":", "!==",
     "||", ".call", ".push", ".join", ".tmpl", "=>", "<eof>"}

Keywords == {"typeof", "function", "var", "return", "with"}

IsStringLiteral(tok) ==
    tok \in {"''", "'function'"} \cup {escapeJsValue(t) : t \in Texts}

StringLiteralValue(tok) ==
    IF tok = "''" THEN <<>>
    ELSE IF tok = "'function'" THEN <<"function">>
    ELSE <<CHOOSE t \in Texts : escapeJsValue(t) = tok>>

IsNumberLiteral(tok) == \E n \in 0..9 : tok = Digit(n)

NumberLiteralValue(tok) == CHOOSE n \in 0..9 : tok = Digit(n)

IsIdentifier(tok) ==
    /\ tok \notin Punctuation \cup Keywords \cup Whitespace
    /\ tok \notin {"null", "true", "false", "arguments"}
    /\ ~IsStringLiteral(tok)
    /\ ~IsNumberLiteral(tok)

\* A lexeme that is an expression by itself.
IsAtom(tok) ==
    \/ IsIdentifier(tok)
    \/ IsStringLiteral(tok)
    \/ IsNumberLiteral(tok)
    \/ tok \in {"null", "true", "false", "arguments"}

\* The lexemes of the joined source: white space separates, and is dropped.
Lexemes(source) == SelectSeq(source, LAMBDA tok : tok \notin Whitespace)

Tok(c, p) == IF p >= 1 /\ p <= Len(c) THEN c[p] ELSE "<eof>"

\* Whether the lexemes from p on start with pattern.
Match(c, p, pattern) ==
    /\ p >= 1
    /\ p + Len(pattern) - 1 <= Len(c)
    /\ SubSeq(c, p, p + Len(pattern) - 1) = pattern

Scope(fn, bound, args) == [fn |-> fn, vars |-> bound, args |-> args]

R(v, p, st) == [v |-> v, p |-> p, st |-> st]

SyntaxAt(p, st) == R(Undefined, p, [st EXCEPT !.syntax = TRUE])

ThrowAt(p, st) == R(Undefined, p, [st EXCEPT !.thrown = TRUE])

\* Skips pattern, which has to be there.
Expect(c, r, pattern) ==
    IF Match(c, r.p, pattern) THEN [r EXCEPT !.p = @ + Len(pattern)]
    ELSE [r EXCEPT !.st.syntax = TRUE]

\* Identifier resolution along the scope chain, innermost scope first.
ScopeOf(env, name) ==
    LET holds == {i \in 1..Len(env) : HasProp(env[i].vars, name)}
    IN IF holds = {} THEN 0 ELSE CHOOSE i \in holds : \A j \in holds : j <= i

Lookup(st, name) ==
    LET i == ScopeOf(st.env, name)
    IN IF i = 0 THEN R(Undefined, 0, [st EXCEPT !.thrown = TRUE])
       ELSE R(GetProp(st.env[i].vars, name), 0, st)

\* name = v; an unresolved name becomes a property of the global object.
AssignVar(st, name, v) ==
    LET i == ScopeOf(st.env, name)
    IN [st EXCEPT !.env[IF i = 0 THEN 1 ELSE i].vars = SetProp(@, name, v)]

\* The arguments object of the innermost function.
ArgumentsOf(st) ==
    LET fns == {i \in 1..Len(st.env) : st.env[i].fn}
    IN Arguments(st.env[CHOOSE i \in fns : \A j \in fns : j <= i].args)

\* a[ i ]
Index(a, i) ==
    IF a.t \in {"array", "arguments"} /\ i + 1 <= Len(a.a)
       /\ a.a[i + 1].t # "hole"
    THEN a.a[i + 1]
    ELSE Undefined

\* The value of a single-lexeme expression.
EvalAtom(tok, p, st, live) ==
    IF ~IsAtom(tok) THEN SyntaxAt(p, st)
    ELSE IF ~live THEN R(Undefined, p + 1, st)
    ELSE IF IsStringLiteral(tok) THEN R(Str(StringLiteralValue(tok)), p + 1, st)
    ELSE IF IsNumberLiteral(tok) THEN R(Num(NumberLiteralValue(tok)), p + 1, st)
    ELSE IF tok = "null" THEN R(Null, p + 1, st)
    ELSE IF tok \in {"true", "false"} THEN R(Bool(tok = "true"), p + 1, st)
    ELSE IF tok = "arguments" THEN R(ArgumentsOf(st), p + 1, st)
    ELSE [Lookup(st, tok) EXCEPT !.p = p + 1]

\* The functions the data of a template holds: n counts its arguments, z
\* is a thunk, f and g show their argument.
UserCall(f, args) ==
    CASE f = "argc" -> Num(Len(args))
      [] f = "thunk" -> Str(<<"z">>)
      [] f \in {"F", "G"} ->
            Str(<<f, "<">> \o (IF args = <<>> THEN <<"undefined">>
                               ELSE ToStr(args[1])) \o <<">">>)
      [] OTHER -> Undefined

\* f( args ) for a value of the data.
CallValue(f, args, p, st) ==
    IF f.t # "function" THEN ThrowAt(p, st)
    ELSE R(UserCall(f.f, args), p, st)

\* $.template( selector ).tmpl( data, options ): the registry is outside
\* the compiler; the call is recorded and yields a string.
SubTemplateOutput(selector) == Str(<<"<">> \o ToStr(selector) \o <<">">>)

\* The names of the wrappers "g", "(", "f", "(" that start at p.
WrapperCount(c, p) ==
    LET ends == {n \in 0..Len(c) :
                    ~(IsIdentifier(Tok(c, p + 2 * n))
                      /\ Tok(c, p + 2 * n + 1) = "(")}
    IN CHOOSE n \in ends : \A m \in ends : n <= m

RECURSIVE ApplyWrappers(_, _, _, _)
ApplyWrappers(c, p, n, r) ==
    IF n = 0 \/ r.st.thrown THEN r
    ELSE LET f == Lookup(r.st, Tok(c, p + 2 * (n - 1)))
         IN ApplyWrappers(c, p, n - 1,
                          IF f.st.thrown THEN ThrowAt(r.p, f.st)
                          ELSE CallValue(f.v, <<r.v>>, r.p, f.st))

\* ( tmp = ( x ), g( f( 'function' !== typeof tmp ? tmp
\*                                                : tmp.call( null, arguments ) ) ) )
EvalSubst(c, p, st, live) ==
    LET tmp == Tok(c, p + 1)
        x == EvalAtom(Tok(c, p + 4), p + 4, st, live)
        n == WrapperCount(c, p + 7)
        q == p + 7 + 2 * n
        test == <<"'function'", "!==", "typeof", tmp, "?", tmp, ":", tmp>>
        shape == /\ Match(c, p + 5, <<")", ",">>)
                 /\ Match(c, q, test \o DethunkCall)
                 /\ Match(c, q + 14, Repeat(")", n + 1))
        st1 == AssignVar(x.st, tmp, x.v)
        value == IF x.v.t = "function"
                 THEN CallValue(x.v, <<ArgumentsOf(st1)>>, q + 15 + n,
                                [st1 EXCEPT !.dethunks =
                                    Append(@, <<ArgumentsOf(st1)>>)])
                 ELSE R(x.v, q + 15 + n, st1)
    IN IF ~shape THEN SyntaxAt(p, x.st)
       ELSE IF ~live \/ x.st.thrown THEN R(Undefined, q + 15 + n, x.st)
       ELSE ApplyWrappers(c, p + 7, n, value)

\* The elements of [ a, b ] from p to the bracket; an element left out is
\* a hole.
RECURSIVE EvalElements(_, _, _, _)
EvalElements(c, p, st, live) ==
    IF Tok(c, p) = "]" THEN R(<<>>, p + 1, st)
    ELSE IF Tok(c, p) = ","
    THEN LET rest == EvalElements(c, p + 1, st, live)
         IN [rest EXCEPT !.v = <<Hole>> \o @]
    ELSE LET a == EvalAtom(Tok(c, p), p, st, live)
         IN IF a.st.syntax THEN a
            ELSE IF Tok(c, a.p) = "]" THEN R(<<a.v>>, a.p + 1, a.st)
            ELSE IF Tok(c, a.p) = "," /\ Tok(c, a.p + 1) = "]"
            THEN R(<<a.v>>, a.p + 2, a.st)
            ELSE IF Tok(c, a.p) = ","
            THEN LET rest == EvalElements(c, a.p + 1, a.st, live)
                 IN [rest EXCEPT !.v = <<a.v>> \o @]
            ELSE SyntaxAt(a.p, a.st)

\* The properties of { k: k, v: v } from p to the brace.
RECURSIVE EvalProperties(_, _, _, _, _)
EvalProperties(c, p, st, live, props) ==
    IF Tok(c, p) = "}" /\ props = <<>> THEN R(Obj(props), p + 1, st)
    ELSE IF ~(IsIdentifier(Tok(c, p)) /\ Tok(c, p + 1) = ":")
    THEN SyntaxAt(p, st)
    ELSE LET a == EvalAtom(Tok(c, p + 2), p + 2, st, live)
             next == SetProp(props, Tok(c, p), a.v)
         IN IF a.st.syntax THEN a
            ELSE IF Tok(c, a.p) = "}" THEN R(Obj(next), a.p + 1, a.st)
            ELSE IF Tok(c, a.p) = ","
            THEN EvalProperties(c, a.p + 1, a.st, live, next)
            ELSE SyntaxAt(a.p, a.st)

\* $.extend( [], arguments, [ data, options ] ) after the elements.
ExtendArgs(c, st, given, live) ==
    LET r == Expect(c, given, <<")">>)
    IN IF ~live \/ r.st.syntax THEN r
       ELSE [r EXCEPT !.v =
                Arr(extend(<<>>, <<ArgumentsOf(st), Arr(given.v)>>, 1))]

\* [ $.extAll( {}, $data, { k: k } ), $item ] after its three parts.
ExtAllResult(c, d, scope, item, live) ==
    LET r == Expect(c, item, <<"]">>)
    IN IF ~live \/ r.st.syntax \/ r.st.thrown THEN r
       ELSE [r EXCEPT !.v =
                Arr(<<Obj(extAll(<<>>, <<d.v, scope.v>>, 1)), item.v>>)]

ExtAllItem(c, d, scope, live) ==
    ExtAllResult(c, d, scope,
                 EvalAtom(Tok(c, scope.p + 2), scope.p + 2,
                          Expect(c, scope, <<")", ",">>).st, live),
                 live)

ExtAllArgs(c, d, live) ==
    ExtAllItem(c, d,
               EvalProperties(c, Expect(c, d, <<",", "{">>).p,
                              Expect(c, d, <<",", "{">>).st, live, <<>>),
               live)

\* The array a sub-template call reads its data and options from:
\* $.extend( [], arguments, [ data, options ] ), or
\* [ $.extAll( {}, $data, { k: k, v: v } ), $item ], or arguments.
EvalTmplArgs(c, p, st, live) ==
    IF Match(c, p, <<"$.extend", "(", "[", "]", ",", "arguments", ",", "[">>)
    THEN ExtendArgs(c, st, EvalElements(c, p + 8, st, live), live)
    ELSE IF Match(c, p, <<"[", ExtAllName, "(", "{", "}", ",">>)
    THEN ExtAllArgs(c, EvalAtom(Tok(c, p + 6), p + 6, st, live), live)
    ELSE EvalAtom(Tok(c, p), p, st, live)

\* .tmpl( tmp[ 0 ], tmp[ 1 ] ) ), from call.p, for the array args.
TmplApply(c, p, args, selector, call, live) ==
    LET tmp == Tok(c, p + 1)
        d == Tok(c, call.p)
        o == Tok(c, call.p + 5)
        shape == /\ IsIdentifier(d) /\ IsIdentifier(o)
                 /\ Match(c, call.p + 1, <<"[", "0", "]", ",">>)
                 /\ Match(c, call.p + 6, <<"[", "1", "]", ")", ")">>)
        st1 == AssignVar(call.st, tmp, args.v)
    IN IF call.st.syntax \/ ~shape THEN SyntaxAt(p, call.st)
       ELSE IF ~live \/ call.st.thrown THEN R(Undefined, call.p + 11, call.st)
       ELSE IF Lookup(st1, d).v.t \in {"undefined", "null"}
               \/ Lookup(st1, o).v.t \in {"undefined", "null"}
       THEN ThrowAt(call.p + 11, st1)
       ELSE R(SubTemplateOutput(selector.v), call.p + 11,
              [st1 EXCEPT !.calls =
                  Append(@, [selector |-> selector.v,
                             data |-> Index(Lookup(st1, d).v, 0),
                             options |-> Index(Lookup(st1, o).v, 1)])])

TmplSelector(c, p, args, selector, live) ==
    TmplApply(c, p, args, selector,
              Expect(c, selector, <<")", ")", ".tmpl", "(">>), live)

TmplCall(c, p, args, open, live) ==
    TmplSelector(c, p, args, EvalAtom(Tok(c, open.p), open.p, open.st, live),
                 live)

\* ( tmp = args, $.template( ( selector ) ).tmpl( tmp[ 0 ], tmp[ 1 ] ) )
EvalTmpl(c, p, st, live) ==
    TmplCall(c, p, EvalTmplArgs(c, p + 3, st, live),
             Expect(c, EvalTmplArgs(c, p + 3, st, live),
                    <<",", "$.template", "(", "(">>),
             live)

\* yes ? x : y, after both were read.
Either(yes, x, y) == R(IF yes THEN x.v ELSE y.v, y.p, y.st)

\* tmp.join( '' ) after the loop left the state st.
Joined(name, end, st) ==
    LET result == Lookup(st, name)
    IN IF st.thrown \/ result.st.thrown \/ result.v.t # "array"
       THEN ThrowAt(end, st)
       ELSE R(Str(Flatten([i \in 1..Len(result.v.a) |->
                              ToStr(result.v.a[i])])),
              end, st)

\* tmp.push( body ): onto the array tmp held before the body ran; the
\* callback's scope is left.
Pushed(name, before, body) ==
    LET after == Lookup(body.st, name)
        pushed == IF before.v.t # "array"
                  THEN [body.st EXCEPT !.thrown = TRUE]
                  ELSE IF after.v = before.v
                  THEN AssignVar(body.st, name,
                                 Arr(Append(before.v.a, body.v)))
                  ELSE body.st
    IN [pushed EXCEPT !.env = SubSeq(@, 1, Len(@) - 1)]

RECURSIVE EvalGroup(_, _, _, _), EvalSum(_, _, _), EvalFragment(_, _, _, _),
          EvalIf(_, _, _, _), IfThen(_, _, _, _), IfElse(_, _, _, _, _),
          EvalEach(_, _, _, _), EachBody(_, _, _, _, _),
          EachLoop(_, _, _, _, _, _)

\* a + b + c, from the left
EvalGroup(c, p, st, live) == EvalSum(c, EvalFragment(c, p, st, live), live)

\* a + b: a left operand that is not a string is noted.
Added(a, b, live) ==
    R(IF live THEN JsAdd(a.v, b.v) ELSE Undefined, b.p,
      IF live /\ a.v.t # "string" /\ ~b.st.thrown
      THEN [b.st EXCEPT !.numeric = TRUE] ELSE b.st)

EvalSum(c, a, live) ==
    IF Tok(c, a.p) # "+" \/ a.st.syntax THEN a
    ELSE EvalSum(c, Added(a, EvalFragment(c, a.p + 1, a.st, live), live),
                 live)

EvalFragment(c, p, st, live) ==
    LET tok == Tok(c, p)
    IN IF IsStringLiteral(tok) THEN EvalAtom(tok, p, st, live)
       ELSE IF tok # "(" THEN SyntaxAt(p, st)
       ELSE IF Tok(c, p + 1) = "(" THEN EvalIf(c, p + 1, st, live)
       ELSE IF ~(IsIdentifier(Tok(c, p + 1)) /\ Tok(c, p + 2) = "=")
       THEN SyntaxAt(p, st)
       ELSE IF Tok(c, p + 3) = "(" THEN EvalSubst(c, p, st, live)
       ELSE IF Match(c, p + 3, <<"[", "]", ",", "$.each">>)
       THEN EvalEach(c, p, st, live)
       ELSE EvalTmpl(c, p, st, live)

\* ( ( a ) ? ( x ) : ( b ) ? ( y ) : ( z ) ), from the parenthesis at p,
\* which opens a condition or the last alternative.
EvalIf(c, p, st, live) ==
    IF Tok(c, p) # "(" THEN SyntaxAt(p, st)
    ELSE IF Tok(c, p + 2) = ")" /\ Tok(c, p + 3) = "?"
    THEN IfThen(c, p, EvalAtom(Tok(c, p + 1), p + 1, st, live), live)
    ELSE Expect(c, Expect(c, EvalGroup(c, p + 1, st, live), <<")">>), <<")">>)

\* Whether the alternative after cond is the one that runs.
Chosen(cond, live, truthy) ==
    live /\ ~cond.st.thrown /\ Truthy(cond.v) = truthy

\* cond ? ( x ) : ...
IfThen(c, p, cond, live) ==
    IfElse(c, p, cond,
           EvalGroup(c, p + 5, cond.st, Chosen(cond, live, TRUE)), live)

\* ... : ( y )
IfElse(c, p, cond, x, live) ==
    Either(Chosen(cond, live, TRUE), x,
           EvalIf(c, Expect(c, x, <<")", ":">>).p,
                  IF Tok(c, p + 4) = "(" THEN Expect(c, x, <<")", ":">>).st
                  ELSE [x.st EXCEPT !.syntax = TRUE],
                  Chosen(cond, live, FALSE)))

\* ( tmp = [], $.each( ( container ), function ( k, v ) {
\*     var tmp1; tmp.push( body ) } ), tmp.join( '' ) )
EvalEach(c, p, st, live) ==
    EachBody(c, p, EvalAtom(Tok(c, p + 9), p + 9, st, live),
             EvalGroup(c, p + 25, st, FALSE), live)

\* body is the callback's body, parsed and not run.
EachBody(c, p, container, body, live) ==
    LET tmp == Tok(c, p + 1)
        k == Tok(c, p + 14)
        v == Tok(c, p + 16)
        local == Tok(c, p + 20)
        pushed == Tok(c, p + 22)
        joined == Tok(c, body.p + 4)
        shape == /\ Match(c, p + 7, <<"(", "(">>)
                 /\ ~container.st.syntax
                 /\ Match(c, p + 10, <<")", ",", "function", "(">>)
                 /\ IsIdentifier(k) /\ Tok(c, p + 15) = "," /\ IsIdentifier(v)
                 /\ Match(c, p + 17, <<")", "{", "var">>)
                 /\ IsIdentifier(local) /\ Tok(c, p + 21) = ";"
                 /\ IsIdentifier(pushed)
                 /\ Match(c, p + 23, <<".push", "(">>)
                 /\ ~body.st.syntax
                 /\ Match(c, body.p, <<")", "}", ")", ",">>)
                 /\ IsIdentifier(joined)
                 /\ Match(c, body.p + 5, <<".join", "(", "''", ")", ")">>)
        end == body.p + 10
        st1 == AssignVar(container.st, tmp, Arr(<<>>))
    IN IF ~shape THEN SyntaxAt(p, [container.st EXCEPT !.syntax = TRUE])
       ELSE IF ~live \/ container.st.thrown THEN R(Undefined, end, container.st)
       ELSE IF container.v.t \in {"undefined", "null"} THEN ThrowAt(end, st1)
       ELSE Joined(joined, end,
                   EachLoop(c, p, Entries(container.v), 1, st1,
                            <<k, v, local, pushed>>))

\* callback( key, value ) for the entries from i on: a scope with the two
\* parameters and the local temporary, the body, and the push onto the
\* array the accumulator held before the body ran.
EachLoop(c, p, entries, i, st, names) ==
    IF i > Len(entries) \/ st.thrown THEN st
    ELSE LET params == SetProp(SetProp(<<>>, names[1], entries[i].k),
                               names[2], entries[i].v)
             bound == IF HasProp(params, names[3]) THEN params
                      ELSE Append(params, Prop(names[3], Undefined))
             entered == [st EXCEPT !.env =
                            Append(@, Scope(TRUE, bound,
                                            <<entries[i].k, entries[i].v>>))]
         IN EachLoop(c, p, entries, i + 1,
                     Pushed(names[4], Lookup(entered, names[4]),
                            EvalGroup(c, p + 25, entered, TRUE)),
                     names)

\* The scopes a call f( $data, $item ) starts the return expression in:
\* the global one, the function's (its parameters, which arguments[ 0 ]
\* and arguments[ 1 ] alias, and $$tmplVar0) and the with block's.
StartState(d, o) ==
    LET item == IF Truthy(o) THEN o ELSE Obj(<<>>)
        copy == Obj(extAll(<<>>, <<IF Truthy(d) THEN d ELSE Obj(<<>>)>>, 1))
    IN [env |-> <<Scope(TRUE, <<>>, <<>>),
                  Scope(TRUE,
                        <<Prop("$data", copy), Prop("$item", item),
                          Prop(tmpNameAt(0), Undefined)>>,
                        <<copy, item>>),
                  Scope(FALSE, copy.props, <<>>)>>,
        calls |-> <<>>, dethunks |-> <<>>, syntax |-> FALSE,
        thrown |-> FALSE, numeric |-> FALSE]

\* The whole source has to be the function body.
Ended(c, r) == IF r.p = Len(c) + 1 THEN r ELSE [r EXCEPT !.st.syntax = TRUE]

\* The call of the compiled function, or with live FALSE its parse.
Run(source, d, o, live) ==
    Ended(Lexemes(source),
          IF Match(Lexemes(source), 1, InitialSource)
          THEN Expect(Lexemes(source),
                      Expect(Lexemes(source),
                             EvalGroup(Lexemes(source),
                                       Len(InitialSource) + 1,
                                       StartState(d, o), live),
                             <<")">>),
                      <<"}">>)
          ELSE SyntaxAt(0, StartState(d, o)))

SyntaxError(source) == Run(source, Undefined, Undefined, FALSE).st.syntax

(***************************************************************************)
(* The end of compileToFunction and the call of its result.                *)
(***************************************************************************)
Finish ==
    /\ pc = "walk"
    /\ stack = <<>>
    /\ javaScriptSource' = javaScriptSource \o FinalCode(hasValue)
    /\ IF SyntaxError(javaScriptSource')
       THEN /\ pc' = "error"
            /\ error' = "javaScriptSource"
       ELSE /\ pc' = "compiled"
            /\ UNCHANGED error
    /\ UNCHANGED <<parseTree, data, options, hasValue, nestLevel, inScope,
                   stack, run>>

Thrown == [t |-> "thrown"]

(***************************************************************************)
(* The inputs: parse trees for compileToFunction, and the data and         *)
(* options the compiled function is called with.                           *)
(***************************************************************************)
String(text) == Node("string", <<text>>, <<>>)

Subst(content) == Node("=", content, <<>>)

If(cond, children) == Node("if", cond, children)

Else(cond) == Node("else", cond, <<>>)

Each(content, children) == Node("each", content, children)

Tmpl(content) == Node("tmpl", content, <<>>)

Root(children) == Node("", <<>>, children)

\* The sizes of the inputs.
MaxSiblings == 3

MaxChain == 2

MaxBranches == 3

MaxBody == 2

MaxDepth == 3

MaxElems == 2

SeqsUpTo(S, n) == UNION {[1..m -> S] : m \in 0..n}

\* The data of a call: numbers, two booleans, an undefined property,
\* functions, containers and a name the loops below shadow.
DataOf(p, q) ==
    Obj(<<Prop("x", Num(1)), Prop("y", Num(2)), Prop("p", Bool(p)),
          Prop("q", Bool(q)), Prop("u", Undefined),
          Prop("f", Fn("F")), Prop("g", Fn("G")), Prop("n", Fn("argc")),
          Prop("z", Fn("thunk")),
          Prop("arr", Arr([i \in 1..MaxElems |-> Num(6 + i)])),
          Prop("none", Arr(<<>>)), Prop("us", Arr(<<Undefined>>)),
          Prop("k", Str(<<"c">>)),
          Prop("m", Obj(<<Prop("w", Num(3))>>))>>)

DataSet == {DataOf(p, q) : p, q \in BOOLEAN}

OptionsSet == {Obj(<<Prop("o", Num(5))>>)}

\* Groups of siblings: literals, substitutions of numbers, and one of each
\* directive, at the top level, in a branch and in a loop body.
Leaves == {String("a"), Subst(<<"1">>), Subst(<<"2">>)}

Fragments ==
    Leaves \cup {If(<<"p">>, <<Subst(<<"1">>)>>),
                 Each(<<"arr">>, <<Subst(<<"2">>)>>), Tmpl(<<"'a'">>)}

GroupTrees ==
    {Root(g) : g \in SeqsUpTo(Fragments, MaxSiblings)}
    \cup {Root(<<If(<<"p">>, g)>>) : g \in SeqsUpTo(Leaves, MaxSiblings - 1)}
    \cup {Root(<<Each(<<"arr">>, g)>>) :
             g \in SeqsUpTo(Leaves, MaxSiblings - 1)}

\* Substitutions: a base, then a chain of accessors.
Bases == {"x", "z", "n", "k", "u", "v"}

Chained(base, chain) ==
    <<base>> \o Flatten([j \in 1..Len(chain) |-> <<"=>", chain[j]>>])

Chains == SeqsUpTo({"f", "g"}, MaxChain)

SubstTrees ==
    UNION {{Root(<<Subst(Chained(b, c))>>),
            Root(<<String("a"), Subst(Chained(b, c))>>),
            Root(<<If(<<"p">>, <<Subst(Chained(b, c))>>)>>),
            Root(<<Each(<<"(", "k", ",", "v", ")", "arr">>,
                        <<Subst(Chained(b, c))>>)>>)} :
           b \in Bases, c \in Chains}

\* Sub-template calls: every shape of header, outside and inside loops.
TmplHeaders ==
    {<<"'a'">>}
    \cup {<<"(", d, ")", "'a'">> : d \in {"x", "u", "m", "v"}}
    \cup {<<"(", d, ",", o, ")", "'a'">> :
             d \in {"x", "u", "m", "v"}, o \in {"m", "u"}}
    \cup {<<"(", ",", o, ")", "'a'">> : o \in {"m", "u"}}

TmplTrees ==
    UNION {{Root(<<Tmpl(h)>>),
            Root(<<Each(<<"(", "k", ",", "v", ")", "arr">>, <<Tmpl(h)>>)>>),
            Root(<<Each(<<"(", "k", ",", "v", ")", "us">>, <<Tmpl(h)>>)>>),
            Root(<<Each(<<"arr">>, <<Tmpl(h)>>)>>),
            Root(<<Each(<<"(", "k", ",", "v", ")", "arr">>,
                        <<Each(<<"(", "i", ",", "v", ")", "m">>,
                               <<Tmpl(h)>>)>>)>>),
            Root(<<Each(<<"(", "k", ",", "v", ")", "arr">>,
                        <<If(<<"k">>, <<Tmpl(h)>>)>>)>>),
            Root(<<Each(<<"(", "k", ",", "v", ")", "arr">>, <<>>),
                   Tmpl(h)>>)} :
           h \in TmplHeaders}

\* If nodes: a first condition and body, then up to MaxBranches - 1 else
\* nodes, each with a body.
Letter == <<"a", "b", "c", "d">>

Bodies(n) == {<<>>, <<String(Letter[n])>>}

RECURSIVE ElseTails(_, _)
ElseTails(n, last) ==
    IF n > last THEN {<<>>}
    ELSE {<<>>}
         \cup {<<Else(c)>> \o b \o t :
                  c \in {<<"q">>, <<"nope">>, <<>>}, b \in Bodies(n),
                  t \in ElseTails(n + 1, last)}

IfTrees ==
    {Root(<<If(c, b \o t)>>) :
        c \in {<<"p">>, <<"q">>, <<>>, <<" ">>}, b \in Bodies(1),
        t \in ElseTails(2, MaxBranches)}

\* Loops: every header over every short body, and loops in loops.
EachHeaders ==
    {<<"(", "k", ",", "v", ")", "arr">>, <<"arr">>,
     <<"(", "k", ",", "v", ")", "none">>, <<"(", "i", ",", "w", ")", "m">>}

BodyParts ==
    {String("a"), Subst(<<"k">>), Subst(<<"v">>), Subst(<<"$index">>),
     Subst(<<"$value">>), Subst(<<"x">>)}

RECURSIVE Nested(_)
Nested(depth) ==
    IF depth = 0 THEN {<<Subst(<<"k">>), Subst(<<"v">>), String("a")>>}
    ELSE {<<Subst(<<"v">>), Each(h, b), Subst(<<"k">>)>> :
             h \in {<<"(", "k", ",", "v", ")", "arr">>, <<"arr">>,
                    <<"(", "i", ",", "v", ")", "m">>},
             b \in Nested(depth - 1)}

EachTrees ==
    {Root(<<Each(h, b)>>) : h \in EachHeaders, b \in SeqsUpTo(BodyParts, MaxBody)}
    \cup {Root(<<Each(<<"(", "k", ",", "v", ")", "arr">>, b)>>) :
             b \in UNION {Nested(d) : d \in 1..(MaxDepth - 1)}}
    \cup {Root(<<Each(h, <<Subst(<<"v">>)>>), Each(g, <<Subst(<<"v">>)>>)>>) :
             h, g \in EachHeaders}
    \cup {Root(<<Each(<<"(", "k", ",", "v", ")", "arr">>,
                      <<Each(h, <<Subst(<<"v">>)>>),
                        Each(g, <<Subst(<<"k">>)>>),
                        If(<<"k">>, <<String("a"), Else(<<>>),
                                      Subst(<<"v">>)>>)>>)>>) :
             h, g \in EachHeaders}

\* Malformed nodes, at every depth.
Malformed ==
    {Each(<<>>, <<String("a")>>), Each(<<" ">>, <<String("a")>>),
     Each(<<"(", "k", ",", "v", ")">>, <<String("a")>>),
     Each(<<"(", "k", ")", "arr">>, <<String("a")>>),
     Tmpl(<<>>), Tmpl(<<" ">>), Tmpl(<<"(", "x", ")">>),
     Tmpl(<<"(", "x", "'a'">>),
     If(<<>>, <<String("a")>>), If(<<" ">>, <<String("a")>>),
     If(<<"p">>, <<String("a"), Else(<<>>), String("b"), Else(<<"q">>),
                   String("c")>>),
     If(<<"p">>, <<Else(<<" ">>), Else(<<>>)>>),
     Node("html", <<"x">>, <<>>), Node("wrap", <<"x">>, <<String("a")>>),
     Else(<<>>), Else(<<"p">>)}

MalformedTrees ==
    UNION {{Root(<<bad>>), Root(<<String("a"), bad>>),
            Root(<<bad, String("a")>>),
            Root(<<If(<<"p">>, <<bad>>)>>),
            Root(<<If(<<"p">>, <<String("a"), Else(<<>>), bad>>)>>),
            Root(<<Each(<<"arr">>, <<bad>>)>>),
            Root(<<Each(<<"arr">>,
                        <<Each(<<"m">>, <<Subst(<<"x">>), bad>>)>>)>>),
            Root(<<If(<<"p">>, <<Each(<<"arr">>, <<bad>>)>>)>>)} :
           bad \in Malformed}

Trees ==
    GroupTrees \cup SubstTrees \cup TmplTrees \cup IfTrees \cup EachTrees
    \cup MalformedTrees

InitWith(trees) ==
    /\ parseTree \in trees
    /\ data = Undefined
    /\ options = Undefined
    /\ javaScriptSource = InitialSource
    /\ hasValue = FALSEY
    /\ nestLevel = 0
    /\ inScope = <<>>
    /\ stack = <<WalkFrame(parseTree.children)>>
    /\ pc = "walk"
    /\ error = ""
    /\ output = Undefined
    /\ calls = <<>>
    /\ dethunks = <<>>
    /\ numericPlus = FALSE

Init == InitWith(Trees)

\* The call returned r, or threw.
Returned(d, o, r) ==
    /\ data' = d
    /\ options' = o
    /\ output' = IF r.st.thrown THEN Thrown ELSE r.v
    /\ calls' = r.st.calls
    /\ dethunks' = r.st.dethunks
    /\ numericPlus' = r.st.numeric

Invoke ==
    /\ pc = "compiled"
    /\ \E d \in DataSet, o \in OptionsSet :
          Returned(d, o, Run(javaScriptSource, d, o, TRUE))
    /\ pc' = "done"
    /\ UNCHANGED <<parseTree, javaScriptSource, hasValue, nestLevel, inScope,
                   stack, error>>

Next ==
    \/ WalkString
    \/ WalkSubst
    \/ WalkIf
    \/ IfBranch
    \/ IfExit
    \/ WalkEach
    \/ EachExit
    \/ WalkTmpl
    \/ WalkUnknown
    \/ WalkReturn
    \/ Finish
    \/ Invoke

Spec == Init /\ [][Next]_vars

(***************************************************************************)
(* What a template means, read off the parse tree: the value the compiled  *)
(* function is expected to return and the sub-template calls it is         *)
(* expected to make.  env holds the data and options of the call and the   *)
(* loops in scope, outermost first.  A result is the text, the calls and   *)
(* whether evaluation threw.                                               *)
(***************************************************************************)
Meaning(out, made, thrown) == [out |-> out, calls |-> made, thrown |-> thrown]

MeaningThrown == Meaning(<<>>, <<>>, TRUE)

Env(d, o, loops) == [data |-> d, options |-> o, loops |-> loops]

Loop(keyName, key, valueName, value) ==
    [keyName |-> keyName, key |-> key, valueName |-> valueName,
     value |-> value]

\* The innermost loop that binds name, or 0.
BindingLoop(name, env) ==
    LET binds == {i \in 1..Len(env.loops) :
                     name \in {env.loops[i].keyName, env.loops[i].valueName}}
    IN IF binds = {} THEN 0 ELSE CHOOSE i \in binds : \A j \in binds : j <= i

Resolves(tok, env) ==
    \/ IsStringLiteral(tok)
    \/ IsNumberLiteral(tok)
    \/ BindingLoop(tok, env) # 0
    \/ HasProp(env.data.props, tok)

ValueOf(tok, env) ==
    LET i == BindingLoop(tok, env)
    IN IF IsStringLiteral(tok) THEN Str(StringLiteralValue(tok))
       ELSE IF IsNumberLiteral(tok) THEN Num(NumberLiteralValue(tok))
       ELSE IF i # 0
       THEN IF env.loops[i].valueName = tok THEN env.loops[i].value
            ELSE env.loops[i].key
       ELSE GetProp(env.data.props, tok)

\* The names of x=>f=>g after the base.
AccessorsOf(content) ==
    [j \in 1..((Len(content) - 1) \div 2) |-> content[2 * j + 1]]

\* g( f( v ) ) for the accessors <<f, g>>.
RECURSIVE Piped(_, _, _)
Piped(names, v, env) ==
    IF names = <<>> THEN v
    ELSE Piped(Tail(names),
               UserCall(ValueOf(Head(names), env).f, <<v>>), env)

MeaningOfSubst(node, env) ==
    LET names == AccessorsOf(node.content)
        base == ValueOf(node.content[1], env)
        dethunked == IF base.t = "function"
                     THEN UserCall(base.f, <<env.data, env.options>>)
                     ELSE base
    IN IF \/ ~Resolves(node.content[1], env)
          \/ \E j \in 1..Len(names) :
                \/ ~Resolves(names[j], env)
                \/ ValueOf(names[j], env).t # "function"
       THEN MeaningThrown
       ELSE Meaning(ToStr(Piped(names, dethunked, env)), <<>>, FALSE)

\* The branches of an if node: condition and body, from the left.
BranchesOf(node) ==
    LET n == Len(node.children)
        elses == {i \in 1..n : node.children[i].kind = "else"}
        starts == {0} \cup elses
        EndOf(i) == IF \E e \in elses : e > i
                    THEN (CHOOSE e \in elses :
                             e > i /\ \A f \in elses : f > i => e <= f) - 1
                    ELSE n
        ordered == [j \in 1..Cardinality(starts) |->
                       CHOOSE i \in starts :
                          Cardinality({h \in starts : h < i}) = j - 1]
    IN [j \in 1..Len(ordered) |->
           [cond |-> IF ordered[j] = 0 THEN node.content
                     ELSE node.children[ordered[j]].content,
            body |-> SubSeq(node.children, ordered[j] + 1,
                            EndOf(ordered[j]))]]

\* The data a sub-template gets when the loops in scope are merged in.
RECURSIVE Merged(_, _, _)
Merged(props, loops, i) ==
    IF i > Len(loops) THEN props
    ELSE Merged(SetProp(SetProp(props, loops[i].keyName, loops[i].key),
                        loops[i].valueName, loops[i].value),
                loops, i + 1)

\* The explicit data and options of a tmpl header, "" where there is none.
HeaderOf(content) ==
    IF content[1] # "("
    THEN [d |-> "", o |-> "", selector |-> content[1]]
    ELSE IF content[2] = ","
    THEN [d |-> "", o |-> content[3], selector |-> content[5]]
    ELSE IF content[3] = ","
    THEN [d |-> content[2], o |-> content[4], selector |-> content[6]]
    ELSE [d |-> content[2], o |-> "", selector |-> content[4]]

MeaningOfTmpl(node, env) ==
    LET h == HeaderOf(node.content)
        d == IF h.d # "" THEN ValueOf(h.d, env)
             ELSE IF h.o = "" /\ env.loops # <<>>
             THEN Obj(Merged(env.data.props, env.loops, 1))
             ELSE env.data
        o == IF h.o # "" THEN ValueOf(h.o, env) ELSE env.options
    IN IF \E name \in {h.d, h.o, h.selector} \ {""} : ~Resolves(name, env)
       THEN MeaningThrown
       ELSE Meaning(SubTemplateOutput(ValueOf(h.selector, env)).s,
                    <<[selector |-> ValueOf(h.selector, env), data |-> d,
                       options |-> o, hasData |-> h.d # "",
                       hasOptions |-> h.o # ""]>>,
                    FALSE)

\* The meanings of a run of parts, one after the other, up to the first
\* that throws.
Sequenced(parts) ==
    LET bad == {i \in 1..Len(parts) : parts[i].thrown}
        last == IF bad = {} THEN Len(parts)
                ELSE CHOOSE i \in bad : \A j \in bad : i <= j
    IN Meaning(Flatten([i \in 1..last |-> parts[i].out]),
               Flatten([i \in 1..last |-> parts[i].calls]),
               bad # {})

RECURSIVE MeaningOfNodes(_, _), MeaningOfNode(_, _), MeaningOfIf(_, _),
          MeaningOfEach(_, _)

MeaningOfNodes(nodes, env) ==
    Sequenced([i \in 1..Len(nodes) |-> MeaningOfNode(nodes[i], env)])

\* The body of the leftmost branch whose condition is truthy or absent;
\* the conditions up to that branch are the ones evaluated.
MeaningOfIf(node, env) ==
    LET bs == BranchesOf(node)
        Taken(j) == \/ ~NonBlank(bs[j].cond)
                    \/ Truthy(ValueOf(bs[j].cond[1], env))
        Throws(j) == NonBlank(bs[j].cond) /\ ~Resolves(bs[j].cond[1], env)
        decided == {j \in 1..Len(bs) : Throws(j) \/ Taken(j)}
        first == CHOOSE j \in decided : \A h \in decided : j <= h
    IN IF decided = {} THEN Meaning(<<>>, <<>>, FALSE)
       ELSE IF Throws(first) THEN MeaningThrown
       ELSE MeaningOfNodes(bs[first].body, env)

\* The bodies of the elements, in iteration order.
MeaningOfEach(node, env) ==
    LET named == node.content[1] = "("
        keyName == IF named THEN node.content[2]
                   ELSE DEFAULT_EACH_KEY_VARIABLE_NAME
        valueName == IF named THEN node.content[4]
                     ELSE DEFAULT_EACH_VALUE_VARIABLE_NAME
        container == IF named THEN node.content[6] ELSE node.content[1]
        entries == Entries(ValueOf(container, env))
    IN IF ~Resolves(container, env) THEN MeaningThrown
       ELSE Sequenced(
               [i \in 1..Len(entries) |->
                   MeaningOfNodes(
                      node.children,
                      [env EXCEPT !.loops =
                          Append(@, Loop(keyName, entries[i].k, valueName,
                                         entries[i].v))])])

MeaningOfNode(node, env) ==
    CASE node.kind = "string" -> Meaning(node.content, <<>>, FALSE)
      [] node.kind = "=" -> MeaningOfSubst(node, env)
      [] node.kind = "if" -> MeaningOfIf(node, env)
      [] node.kind = "each" -> MeaningOfEach(node, env)
      [] node.kind = "tmpl" -> MeaningOfTmpl(node, env)
      [] OTHER -> MeaningThrown

\* The meaning of the template for the call that was made.
Expected == MeaningOfNodes(parseTree.children, Env(data, options, <<>>))

(***************************************************************************)
(* Shapes of parse trees the properties speak of.                          *)
(***************************************************************************)
RECURSIVE NodesOf(_)
NodesOf(node) ==
    {node} \cup UNION {NodesOf(node.children[i]) :
                          i \in 1..Len(node.children)}

AllNodes == NodesOf(parseTree)

KindsIn(tree) == {n.kind : n \in NodesOf(tree)} \ {""}

Occurrences(tok, source) ==
    Cardinality({i \in 1..Len(source) : source[i] = tok})

\* Two values with the same properties, in whatever order.
SameValue(a, b) ==
    IF a.t = "object" /\ b.t = "object"
    THEN /\ Len(a.props) = Len(b.props)
         /\ {a.props[i] : i \in 1..Len(a.props)}
            = {b.props[i] : i \in 1..Len(b.props)}
    ELSE a = b

\* A header "container" or "( key, value ) container".
EachHeaderShape(content) ==
    \/ Len(content) = 1 /\ IsAtom(content[1])
    \/ /\ Len(content) = 6
       /\ content[1] = "(" /\ content[3] = "," /\ content[5] = ")"
       /\ IsIdentifier(content[2]) /\ IsIdentifier(content[4])
       /\ IsAtom(content[6])

\* A header "selector", "( data ) selector", "( data, options ) selector"
\* or "( , options ) selector".
TmplHeaderShape(content) ==
    \/ Len(content) = 1 /\ IsAtom(content[1])
    \/ /\ Len(content) = 4
       /\ content[1] = "(" /\ IsAtom(content[2]) /\ content[3] = ")"
       /\ IsAtom(content[4])
    \/ /\ Len(content) = 5
       /\ content[1] = "(" /\ content[2] = "," /\ IsAtom(content[3])
       /\ content[4] = ")" /\ IsAtom(content[5])
    \/ /\ Len(content) = 6
       /\ content[1] = "(" /\ IsAtom(content[2]) /\ content[3] = ","
       /\ IsAtom(content[4]) /\ content[5] = ")" /\ IsAtom(content[6])

\* A conditionless else of node that another else follows.
ElseNotLast(node) ==
    \E i, j \in 1..Len(node.children) :
       /\ i < j
       /\ node.children[i].kind = "else"
       /\ ~NonBlank(node.children[i].content)
       /\ node.children[j].kind = "else"

\* A child the walk has no case for: the else nodes of an if node are read
\* by the if node.
Unrecognised(parent, child) ==
    /\ child.kind \notin {"string", "=", "if", "each", "tmpl"}
    /\ ~(parent.kind = "if" /\ child.kind = "else")

HasMalformed(tree) ==
    \E n \in NodesOf(tree) :
       \/ n.kind = "each" /\ ~EachHeaderShape(n.content)
       \/ n.kind = "tmpl" /\ ~TmplHeaderShape(n.content)
       \/ n.kind = "if" /\ ~NonBlank(n.content)
       \/ n.kind = "if" /\ ElseNotLast(n)
       \/ /\ n.kind \in {"", "if", "each"}
          /\ \E i \in 1..Len(n.children) : Unrecognised(n, n.children[i])

\* An if node with a first condition, literal bodies, and no conditionless
\* else but a last one.
WellFormedIf(node) ==
    /\ node.kind = "if"
    /\ NonBlank(node.content)
    /\ ~ElseNotLast(node)
    /\ \A i \in 1..Len(node.children) :
          node.children[i].kind \in {"string", "else"}

\* A substitution of a plain name whose value is not a function.
PlainSubst(node) ==
    /\ node.kind = "="
    /\ Len(node.content) = 1
    /\ node.content[1] \notin {"f", "g", "n", "z"}

\* Loops over literals and plain substitutions.
EachOnly(tree) ==
    /\ "each" \in KindsIn(tree)
    /\ \A n \in NodesOf(tree) :
          \/ n = tree
          \/ n.kind = "string"
          \/ PlainSubst(n)
          \/ n.kind = "each" /\ EachHeaderShape(n.content)

\* One substitution with n >= 1 accessors, of a base whose value does not
\* depend on the arguments it is called with.
ChainOf(tree) ==
    CHOOSE n \in NodesOf(tree) : n.kind = "="

HasChain(tree) ==
    /\ Cardinality({n \in NodesOf(tree) : n.kind = "="}) = 1
    /\ Len(ChainOf(tree).content) >= 3
    /\ ChainOf(tree).content[1] # "n"

(***************************************************************************)
(* The properties.                                                         *)
(***************************************************************************)
Compiled == pc \in {"compiled", "done"}

\* What the call returned is what the template means.
OutputAsExpected ==
    IF Expected.thrown THEN output = Thrown
    ELSE output = Str(Expected.out)

\* C1: every group of siblings compiles to a string-valued expression: the
\* walk has a value in hand exactly when an earlier fragment of the group
\* it is in produced one (which is when it emits a +), no group is emitted
\* empty, the emitted source is an expression, and a call never adds to a
\* left operand that is not a string: it returns a string, literals alone
\* give their concatenation, and ${1}${2} gives "12".
C1_StringTypedGroups ==
    /\ (pc = "walk" /\ stack # <<>> /\ Top.k = "walk")
          => (hasValue <=> Top.i > 1)
    /\ error # "javaScriptSource"
    /\ Compiled =>
          \A i \in 1..(Len(Lexemes(javaScriptSource)) - 1) :
             ~(/\ Lexemes(javaScriptSource)[i] = "("
               /\ Lexemes(javaScriptSource)[i + 1] = ")")
    /\ pc = "done" =>
          /\ ~numericPlus
          /\ output = Thrown \/ output.t = "string"
          /\ KindsIn(parseTree) \subseteq {"string"}
                => output = Str(Flatten([i \in 1..Len(parseTree.children) |->
                                            parseTree.children[i].content]))
          /\ parseTree = Root(<<Subst(<<"1">>), Subst(<<"2">>)>>)
                => output = Str(<<"1", "2">>)

C1_Witness ==
    /\ pc = "done"
    /\ parseTree = Root(<<Subst(<<"1">>), Subst(<<"2">>)>>)
    /\ output = Str(<<"1", "2">>)

\* C2: a substitution whose value is a function is replaced by the result
\* of calling it with the data and the options of the call, at every
\* depth; any other value by its string form.
C2_DethunkWithDataAndOptions ==
    pc = "done" =>
       /\ \A i \in 1..Len(dethunks) : dethunks[i] = <<data, options>>
       /\ KindsIn(parseTree) \subseteq {"string", "=", "each"}
             => OutputAsExpected

\* C3: the arguments of a sub-template call: an explicit data or options
\* expression is used; with neither, inside a loop the data is the data of
\* the call extended with the loop variables in scope and the options are
\* those of the call; with neither and no loop, both are those of the call.
C3_TmplArgumentPrecedence ==
    (pc = "done" /\ output # Thrown) =>
       /\ Len(calls) = Len(Expected.calls)
       /\ \A i \in 1..Len(calls) :
             LET e == Expected.calls[i]
             IN /\ e.hasData => calls[i].data = e.data
                /\ e.hasOptions => calls[i].options = e.options
                /\ (~e.hasData /\ ~e.hasOptions)
                      => /\ SameValue(calls[i].data, e.data)
                         /\ calls[i].options = e.options

\* C4: a sub-template call with only one explicit expression gets the
\* value of that expression, undefined too, and for the other argument the
\* data or options the compiled function was called with, in loops too.
C4_TmplOneExplicitArgument ==
    (pc = "done" /\ output # Thrown) =>
       /\ Len(calls) = Len(Expected.calls)
       /\ \A i \in 1..Len(calls) :
             LET e == Expected.calls[i]
             IN (e.hasData # e.hasOptions)
                   => /\ calls[i].data = e.data
                      /\ calls[i].options = e.options

\* C5: a well-formed if node compiles, and evaluates to the body of the
\* leftmost branch whose condition is truthy or absent, else to the empty
\* string; a condition right of that branch is not evaluated and a branch
\* without children is the empty string.
C5_IfSemantics ==
    (Len(parseTree.children) = 1 /\ WellFormedIf(parseTree.children[1])) =>
       /\ pc # "error"
       /\ (pc = "done" /\ ~Expected.thrown) => output = Str(Expected.out)

\* C6: an each node evaluates to its body's results, one per element with
\* the key and value variables (declared or default) bound to the
\* element's, concatenated in iteration order; the empty string for an
\* empty container or an empty body.
C6_EachSemantics ==
    EachOnly(parseTree) =>
       /\ pc # "error"
       /\ pc = "done" => OutputAsExpected

C6_Witness ==
    /\ pc = "done"
    /\ parseTree = Root(<<Each(<<"(", "k", ",", "v", ")", "arr">>,
                               <<Subst(<<"k">>), Subst(<<"v">>)>>)>>)
    /\ output = Str(Flatten([i \in 1..MaxElems |->
                                NumStr(i - 1) \o NumStr(6 + i)]))

\* C7: a parse tree with a malformed each or tmpl header, an if without a
\* first condition, a conditionless else that is not last or a node of
\* unknown kind, at any depth, never yields a compiled function: the walk
\* does not complete, compilation ends with an error.
C7_MalformedNeverCompiles ==
    HasMalformed(parseTree) =>
       /\ ~Compiled
       /\ pc = "walk" => stack # <<>>

C7_Witness ==
    /\ pc = "error"
    /\ error = "Malformed {{tmpl}} content"
    /\ parseTree = Root(<<Each(<<"arr">>,
                              <<Each(<<"m">>,
                                     <<Subst(<<"x">>), Tmpl(<<>>)>>)>>)>>)

OpenLoops == SelectSeq(stack, LAMBDA frame : frame.k = "each")

LoopNames(content) ==
    IF content[1] = "(" THEN <<content[2], content[4]>>
    ELSE <<DEFAULT_EACH_KEY_VARIABLE_NAME, DEFAULT_EACH_VALUE_VARIABLE_NAME>>

C9_Restored ==
    /\ pc = "walk" =>
          /\ nestLevel = Len(OpenLoops)
          /\ inScope =
                Flatten([i \in 1..Len(OpenLoops) |->
                            LET names == LoopNames(OpenLoops[i].node.content)
                            IN <<<<names[1], ":", names[1]>>,
                                 <<names[2], ":", names[2]>>>>])
          /\ \A i \in 1..Len(OpenLoops) :
                OpenLoops[i].tmpName = tmpNameAt(i - 1)
    /\ Compiled => nestLevel = 0 /\ inScope = <<>>

\* The code a step appends assigns no accumulator of a loop that is open.
C9_BodyKeepsAccumulators ==
    LET added == SubSeq(javaScriptSource', Len(javaScriptSource) + 1,
                        Len(javaScriptSource'))
    IN \A i \in 1..Len(OpenLoops), j \in 1..(Len(added) - 1) :
          ~(added[j] = OpenLoops[i].tmpName /\ added[j + 1] = "=")

\* C9: during the walk nestLevel is the number of loops whose body is
\* being compiled and inScope holds their key and value names, outermost
\* first, so both are restored when a loop is left and are 0 and empty at
\* the end; the accumulator of the loop at depth d is the temporary of
\* depth d, and no code emitted for its body assigns it.
C9_NestingSafety == []C9_Restored /\ [][C9_BodyKeepsAccumulators]_vars

C9_Witness ==
    /\ pc = "walk"
    /\ nestLevel = MaxDepth
    /\ Len(inScope) = 2 * MaxDepth
    /\ stack # <<>> /\ Top.k = "walk" /\ Top.i > 1

\* C10: "{{if}} missing condition" is raised only for an if node whose own
\* condition is blank.
C10_MissingConditionOnlyWhenBlank ==
    (pc = "error" /\ error = "{{if}} missing condition") =>
       \E n \in AllNodes : n.kind = "if" /\ ~NonBlank(n.content)

====
